---- MODULE Spec2Model ----
(***************************************************************************)
(* Model of src/app.py: the explanation-alignment pipeline of the movie    *)
(* review sentiment dashboard (predict_sentiment and the functions it      *)
(* calls).                                                                 *)
(*                                                                         *)
(* Texts are sequences of one-character strings over a small alphabet, so  *)
(* that tokenising, searching, slicing and inserting are done character by *)
(* character as the Python code does them.  Indices kept in the state      *)
(* (start, end, cursor) are Python's 0-based offsets.                      *)
(*                                                                         *)
(* SHAP values are integers in thousandths (10 stands for 0.01).           *)
(***************************************************************************)
EXTENDS FiniteSets, Integers, Sequences, TLC

(* ---------------------------- bounds ----------------------------------- *)

MaxLen == 4
MaxTopN == 2

(* ------------------------ alphabet and data ---------------------------- *)

Letters == {"a", "s", "A"}
Alphabet == Letters \cup {" ", "\"", "_"}

\* \w of the regular expressions: letters and the underscore
WordChars == Letters \cup {"_"}

Texts == UNION {[1..n -> Alphabet] : n \in 0..MaxLen}

\* the tokens word_tokenize writes for an opening and a closing double quote:
\* two backticks and two apostrophes ("grave" stands for the backtick
\* character, which a TLA+ string cannot hold)
OpenQuote == <<"grave", "grave">>
CloseQuote == <<"'", "'">>

\* data/slang-dict.csv as the keyword -> meaning table that line 32 reads
\* with slang_dict.get(word, word): "s" is slang for "a" (a form that is its
\* own stem) and "ss" is slang for "aas" (a form that is stemmed further)
slang_dict == (<<"s">> :> <<"a">>) @@ (<<"s", "s">> :> <<"a", "a", "s">>)

\* stopwords.words('english')
stopwords == {<<"s", "a">>}

\* vectorizer.get_feature_names_out(): the vocabulary, in its stable order
FeatureNames == << <<"a">>, <<"a", "a">> >>
Features == {FeatureNames[i] : i \in DOMAIN FeatureNames}

\* the per-feature SHAP values the explainer may return, in thousandths:
\* below the threshold, exactly on it, just above it, and a negative one
ScoreVals == {4, 10, 12, -20}

\* the significance threshold 0.01, in thousandths
Threshold == 10

\* (\w)\1{5,} removes a character repeated 6 times or more
RunLen == 6

None == <<"None">>

(* ----------------------------- helpers --------------------------------- *)

Min(S) == CHOOSE x \in S : \A y \in S : x <= y
Max(S) == CHOOSE x \in S : \A y \in S : x >= y
Abs(x) == IF x < 0 THEN -x ELSE x

\* Python s[:n]
PyPrefix(s, n) ==
    LET m == IF n < 0 THEN Max({Len(s) + n, 0}) ELSE Min({n, Len(s)})
    IN SubSeq(s, 1, m)

\* Python s[n:]
PySuffix(s, n) ==
    LET m == IF n < 0 THEN Max({Len(s) + n, 0}) ELSE Min({n, Len(s)})
    IN SubSeq(s, m + 1, Len(s))

\* Python s[a:b]
PySlice(s, a, b) ==
    LET lo == IF a < 0 THEN Max({Len(s) + a, 0}) ELSE Min({a, Len(s)})
        hi == IF b < 0 THEN Max({Len(s) + b, 0}) ELSE Min({b, Len(s)})
    IN SubSeq(s, lo + 1, hi)

\* a search that trusts the cursor: the word is taken to start where the
\* previous one ended
FindAtCursor(text, word, pos) == pos

\* Python str.find(word, pos): the lowest 0-based index >= pos where word
\* occurs in text, -1 when there is none
Find(text, word, pos) ==
    LET hits == {i \in pos..(Len(text) - Len(word)) :
                    \A k \in 1..Len(word) : text[i + k] = word[k]}
    IN IF hits = {} THEN -1 ELSE Min(hits)

\* Python str.count("_")
CountUnderscore(s) == Cardinality({i \in 1..Len(s) : s[i] = "_"})

(* ---------------------- preprocess_with_tracking ----------------------- *)

\* length of the run of text[i] that starts at position i (1-based)
RunAt(text, i) ==
    Max({k \in 1..(Len(text) - i + 1) :
            \A j \in i..(i + k - 1) : text[j] = text[i]})

RECURSIVE RemoveRepeated(_, _)
\* re.sub(r'(\w)\1{5,}', '', text), scanning from position i
RemoveRepeated(text, i) ==
    IF i > Len(text) THEN <<>>
    ELSE IF text[i] \in WordChars /\ RunAt(text, i) >= RunLen
         THEN RemoveRepeated(text, i + RunAt(text, i))
         ELSE <<text[i]>> \o RemoveRepeated(text, i + 1)

\* re.sub(r'[^A-Za-z\s]', ' ', text)
RemoveSpecial(text) ==
    [i \in 1..Len(text) |-> IF text[i] \in Letters \cup {" "} THEN text[i] ELSE " "]

RECURSIVE CollapseSpaces(_, _)
\* re.sub(r'\s+', ' ', text), scanning from position i
CollapseSpaces(text, i) ==
    IF i > Len(text) THEN <<>>
    ELSE IF text[i] = " " /\ i > 1 /\ text[i - 1] = " "
         THEN CollapseSpaces(text, i + 1)
         ELSE <<text[i]>> \o CollapseSpaces(text, i + 1)

\* str.strip() of a text whose runs of spaces are already single
Strip(text) ==
    LET a == IF Len(text) > 0 /\ text[1] = " " THEN 2 ELSE 1
        b == IF Len(text) > 0 /\ text[Len(text)] = " " THEN Len(text) - 1 ELSE Len(text)
    IN SubSeq(text, a, b)

\* lines 21-26 (the URL, tag and mention patterns need characters that are
\* not in Alphabet and leave every text over it unchanged)
CleanText(text) ==
    Strip(CollapseSpaces(RemoveSpecial(RemoveRepeated(text, 1)), 1))

RECURSIVE TokScan(_, _, _, _)
\* word_tokenize, scanning from position i with the word cur in progress:
\* whitespace separates tokens; a double quote is a token of its own,
\* written OpenQuote at the start of the text or after a space and
\* CloseQuote elsewhere
TokScan(text, i, cur, acc) ==
    LET flushed == IF cur = <<>> THEN acc ELSE Append(acc, cur)
    IN IF i > Len(text) THEN flushed
       ELSE IF text[i] = " " THEN TokScan(text, i + 1, <<>>, flushed)
       ELSE IF text[i] = "\""
            THEN TokScan(text, i + 1, <<>>,
                         Append(flushed, IF i = 1 \/ text[i - 1] = " "
                                         THEN OpenQuote ELSE CloseQuote))
       ELSE TokScan(text, i + 1, Append(cur, text[i]), acc)

word_tokenize(text) == TokScan(text, 1, <<>>, <<>>)

\* slang_dict.get(word, word)
SlangGet(word) == IF word \in DOMAIN slang_dict THEN slang_dict[word] ELSE word

\* str.lower()
Lower(word) == [i \in 1..Len(word) |-> IF word[i] = "A" THEN "a" ELSE word[i]]

\* PorterStemmer().stem on this alphabet: step 1a drops a final "s" that does
\* not follow another "s"; no other rule has a suffix to match
Stem(word) ==
    IF Len(word) >= 2 /\ word[Len(word)] = "s" /\ word[Len(word) - 1] # "s"
    THEN SubSeq(word, 1, Len(word) - 1)
    ELSE word

\* lines 30-35: the tokens after slang translation
ModifiedTokens(tokens) == [i \in 1..Len(tokens) |-> SlangGet(tokens[i])]

NotStopword(word) == word \notin stopwords

\* line 38
TokensLower(modified) ==
    SelectSeq([i \in 1..Len(modified) |-> Lower(modified[i])], NotStopword)

\* lines 42-47
StemmedTokens(lower) == [i \in 1..Len(lower) |-> Stem(lower[i])]

\* the records appended at lines 34 and 46, as the set of line 49
WordMapping(tokens) ==
    LET modified == ModifiedTokens(tokens)
        lower == TokensLower(modified)
    IN {<<tokens[i], modified[i]>> : i \in {j \in 1..Len(tokens) : tokens[j] # modified[j]}}
       \cup {<<lower[i], Stem(lower[i])>> : i \in {j \in 1..Len(lower) : lower[j] # Stem(lower[j])}}

RECURSIVE Join(_)
\* ' '.join(words)
Join(words) ==
    IF words = <<>> THEN <<>>
    ELSE IF Len(words) = 1 THEN words[1]
    ELSE words[1] \o <<" ">> \o Join(Tail(words))

(* ------------------------- compute_shap_values ------------------------- *)

\* line 206
ProcessedWords(wm) == {r[2] : r \in wm}

\* the threshold test written with > as at lines 239-240
FilteredFeaturesStrict(shap, wm) ==
    LET Keep(f) == f \in ProcessedWords(wm) /\ Abs(shap[f]) > Threshold
    IN SelectSeq(FeatureNames, Keep)

\* lines 207-208: the rows of the vocabulary that are an 'after' of the log
\* and whose |SHAP| is at least 0.01, in vocabulary order
FilteredFeatures(shap, wm) ==
    LET Keep(f) == f \in ProcessedWords(wm) /\ Abs(shap[f]) >= Threshold
    IN SelectSeq(FeatureNames, Keep)

\* the position in rows of the first row of largest |SHAP|
FirstLargest(rows, shap) ==
    Min({i \in 1..Len(rows) : \A j \in 1..Len(rows) : Abs(shap[rows[i]]) >= Abs(shap[rows[j]])})

RemoveAt(rows, i) == SubSeq(rows, 1, i - 1) \o SubSeq(rows, i + 1, Len(rows))

RECURSIVE NLargest(_, _, _)
\* Series.abs().nlargest(n): the n rows of largest |SHAP|, largest first,
\* equal values in their original order; all the rows when there are fewer
NLargest(rows, shap, n) ==
    IF n <= 0 \/ rows = <<>> THEN <<>>
    ELSE LET i == FirstLargest(rows, shap)
         IN <<rows[i]>> \o NLargest(RemoveAt(rows, i), shap, n - 1)

RECURSIVE InsertBySHAP(_, _, _)
InsertBySHAP(sorted, f, shap) ==
    IF sorted = <<>> THEN <<f>>
    ELSE IF shap[f] < shap[sorted[1]] THEN <<f>> \o sorted
    ELSE <<sorted[1]>> \o InsertBySHAP(Tail(sorted), f, shap)

RECURSIVE SortBySHAP(_, _)
\* DataFrame.sort_values(by="SHAP"): ascending
SortBySHAP(rows, shap) ==
    IF rows = <<>> THEN <<>>
    ELSE InsertBySHAP(SortBySHAP(SubSeq(rows, 1, Len(rows) - 1), shap), rows[Len(rows)], shap)

\* lines 209 and 211: the index of top_n_shap_values_df as returned
TopNFeatures(shap, wm, n) == SortBySHAP(NLargest(FilteredFeatures(shap, wm), shap, n), shap)

(* --------------------- generate_spacy_visualization -------------------- *)

\* line 226: the dict built from the records; a later record of the same
\* original replaces an earlier one, and the order of list(set(...)) is
\* arbitrary, so every choice of one record per original is possible
ReverseMappings(wm) ==
    {rm \in [{r[1] : r \in wm} -> {r[2] : r \in wm}] :
        \A o \in DOMAIN rm : <<o, rm[o]>> \in wm}

\* line 234
EndIdx(start_idx, word) == start_idx + Len(word)

RECURSIVE WordPositions(_, _, _, _)
\* lines 230-236, from the i-th word on with the cursor at current_position
WordPositions(text, words, i, current_position) ==
    IF i > Len(words) THEN <<>>
    ELSE LET start_idx == Find(text, words[i], current_position)
             end_idx == EndIdx(start_idx, words[i])
         IN <<[word |-> words[i], start |-> start_idx, end |-> end_idx]>>
            \o WordPositions(text, words, i + 1, end_idx)

\* f"{shap:.2f}": the value rounded to hundredths (no value of ScoreVals
\* lies halfway between two hundredths)
Fmt2(s) == IF s >= 0 THEN (s + 5) \div 10 ELSE -((-s + 5) \div 10)

\* lines 255 and 294: "POS (0.01)" is <<"POS", 1>>
Label(s) == <<IF s > 0 THEN "POS" ELSE "NEG", Fmt2(s)>>

\* lines 239-240: the values the colours are made from
PositiveShapValues(shap, top) ==
    LET vals == [i \in 1..Len(top) |-> shap[top[i]]]
        Pos(v) == v > Threshold
    IN SelectSeq(vals, Pos)

NegativeShapValues(shap, top) ==
    LET vals == [i \in 1..Len(top) |-> shap[top[i]]]
        Neg(v) == v < -Threshold
    IN SelectSeq(vals, Neg)

\* plt.cm.Reds(pos_norm(shap)) and plt.cm.Blues(1 - abs(neg_norm(shap))):
\* the palette and the point on it, in thousandths
PosColor(s) == <<"Reds", s>>
NegColor(s) == <<"Blues", 1000 - Abs(s + 1000)>>

\* lines 244-246: one entry per label, the last value of a label wins
ColorOptions(shap, top) ==
    LET pos == PositiveShapValues(shap, top)
        neg == NegativeShapValues(shap, top)
        LastOf(vals, l) == vals[Max({i \in 1..Len(vals) : Label(vals[i]) = l})]
        posLabels == {Label(pos[i]) : i \in 1..Len(pos)}
        negLabels == {Label(neg[i]) : i \in 1..Len(neg)}
    IN [l \in posLabels \cup negLabels |->
            IF l \in negLabels THEN NegColor(LastOf(neg, l)) ELSE PosColor(LastOf(pos, l))]

\* line 251
ProcessedWord(rm, word) == IF word \in DOMAIN rm THEN rm[word] ELSE None

\* lines 252-254: the token gets a highlight span
Highlighted(rm, shap, word) ==
    /\ ProcessedWord(rm, word) \in Features
    /\ Abs(shap[ProcessedWord(rm, word)]) >= Threshold

RECURSIVE Entities(_, _, _, _)
\* lines 249-256, from the i-th word position on
Entities(positions, rm, shap, i) ==
    IF i > Len(positions) THEN <<>>
    ELSE (IF Highlighted(rm, shap, positions[i].word)
          THEN <<[start |-> positions[i].start, end |-> positions[i].end,
                  label |-> Label(shap[ProcessedWord(rm, positions[i].word)])]>>
          ELSE <<>>)
         \o Entities(positions, rm, shap, i + 1)

\* the adjacency test without the + 1: spans that touch
AdjacentZeroGap(current_end, next_start) == current_end = next_start

\* line 264
Adjacent(current_end, next_start) == current_end + 1 = next_start

RECURSIVE ModifiedText(_, _, _, _)
\* lines 259-266, from the i-th pair on with the text and offset so far
ModifiedText(ents, i, text, offset) ==
    IF i > Len(ents) - 1 THEN text
    ELSE LET current_end == ents[i].end + offset
             next_start == ents[i + 1].start + offset
         IN IF Adjacent(current_end, next_start)
            THEN ModifiedText(ents, i + 1,
                              PyPrefix(text, current_end) \o <<"_">> \o PySuffix(text, current_end),
                              offset + 1)
            ELSE ModifiedText(ents, i + 1, text, offset)

\* lines 269-273
AdjustedEntities(ents, modified) ==
    [i \in 1..Len(ents) |->
        [start |-> ents[i].start + CountUnderscore(PyPrefix(modified, ents[i].start)),
         end |-> ents[i].end + CountUnderscore(PyPrefix(modified, ents[i].end)),
         label |-> ents[i].label]]

(* -------------------------- plot_shap_bar_chart ------------------------ *)

\* lines 293-296: the label looked up for each bar
BarLabels(shap, top) == [i \in 1..Len(top) |-> Label(shap[top[i]])]

(* ----------------------------- the state ------------------------------- *)

VARIABLES
    pc,                 \* where the analysis request is
    n_clicks,           \* the 'submit-val' button's count
    input_text,         \* the 'input-text' value
    n_shap_input,       \* the 'n-shap-input' value
    top_n,              \* predict_sentiment's top_n after line 362: the count of line 210
    processed_text,     \* preprocess_with_tracking's first result
    word_mapping,       \* preprocess_with_tracking's second result
    shap_values,        \* shap_values_df: feature -> SHAP value
    top_n_features,     \* the index of top_n_shap_values_df
    reverse_mapping,    \* line 226
    word_positions,     \* line 230
    entities,           \* line 249
    modified_text,      \* line 259
    adjusted_entities,  \* line 269
    color_options,      \* line 246
    bar_colors          \* line 293

vars == <<pc, n_clicks, input_text, n_shap_input, top_n, processed_text, word_mapping, shap_values,
          top_n_features, reverse_mapping, word_positions, entities, modified_text, adjusted_entities,
          color_options, bar_colors>>

\* the callback fires with the text in the box, the number in the input and
\* the button's count
Init ==
    /\ pc = "request"
    /\ n_clicks \in {0, 1}
    /\ input_text \in Texts
    /\ n_shap_input \in 1..MaxTopN
    /\ top_n = 0
    /\ processed_text = <<>>
    /\ word_mapping = {}
    /\ shap_values = <<>>
    /\ top_n_features = <<>>
    /\ reverse_mapping = <<>>
    /\ word_positions = <<>>
    /\ entities = <<>>
    /\ modified_text = <<>>
    /\ adjusted_entities = <<>>
    /\ color_options = <<>>
    /\ bar_colors = <<>>

\* predict_sentiment, line 372: nothing to analyse
NoAnalysis ==
    /\ pc = "request"
    /\ ~(n_clicks > 0 /\ input_text # <<>>)
    /\ pc' = "no_analysis"
    /\ UNCHANGED <<n_clicks, input_text, n_shap_input, top_n, processed_text, word_mapping, shap_values,
                   top_n_features, reverse_mapping, word_positions, entities, modified_text,
                   adjusted_entities, color_options, bar_colors>>

\* predict_sentiment, lines 332-335: preprocess_with_tracking(input_text)
Preprocess ==
    /\ pc = "request"
    /\ n_clicks > 0 /\ input_text # <<>>
    /\ LET tokens == word_tokenize(CleanText(input_text))
       IN /\ processed_text' = Join(StemmedTokens(TokensLower(ModifiedTokens(tokens))))
          /\ word_mapping' = WordMapping(tokens)
    /\ pc' = "preprocessed"
    /\ UNCHANGED <<n_clicks, input_text, n_shap_input, top_n, shap_values, top_n_features, reverse_mapping, word_positions,
                   entities, modified_text, adjusted_entities, color_options, bar_colors>>

\* predict_sentiment, line 362: compute_shap_values; the explainer's values
\* are whatever the trained model gives for the vectorized text
ComputeShapValues ==
    /\ pc = "preprocessed"
    /\ \E shap \in [Features -> ScoreVals] :
          /\ shap_values' = shap
          /\ top_n_features' = TopNFeatures(shap, word_mapping, n_shap_input)
          /\ top_n' = Len(TopNFeatures(shap, word_mapping, n_shap_input))
    /\ pc' = "explained"
    /\ UNCHANGED <<n_clicks, input_text, n_shap_input, processed_text, word_mapping, reverse_mapping, word_positions,
                   entities, modified_text, adjusted_entities, color_options, bar_colors>>

\* predict_sentiment, line 365: generate_spacy_visualization
GenerateSpacyVisualization ==
    /\ pc = "explained"
    /\ \E rm \in ReverseMappings(word_mapping) :
          LET positions == WordPositions(input_text, word_tokenize(input_text), 1, 0)
              ents == Entities(positions, rm, shap_values, 1)
              modified == ModifiedText(ents, 1, input_text, 0)
          IN /\ reverse_mapping' = rm
             /\ word_positions' = positions
             /\ entities' = ents
             /\ modified_text' = modified
             /\ adjusted_entities' = AdjustedEntities(ents, modified)
    /\ color_options' = ColorOptions(shap_values, top_n_features)
    /\ pc' = "rendered"
    /\ UNCHANGED <<n_clicks, input_text, n_shap_input, top_n, processed_text, word_mapping,
                   shap_values, top_n_features, bar_colors>>

\* predict_sentiment, line 367: plot_shap_bar_chart finds a colour for every bar
PlotShapBarChart ==
    /\ pc = "rendered"
    /\ \A i \in 1..Len(top_n_features) :
          BarLabels(shap_values, top_n_features)[i] \in DOMAIN color_options
    /\ bar_colors' = [i \in 1..Len(top_n_features) |->
                         color_options[BarLabels(shap_values, top_n_features)[i]]]
    /\ pc' = "done"
    /\ UNCHANGED <<n_clicks, input_text, n_shap_input, top_n, processed_text, word_mapping, shap_values,
                   top_n_features, reverse_mapping, word_positions, entities, modified_text,
                   adjusted_entities, color_options>>

\* predict_sentiment, line 367: color_options[...] raises KeyError at line 294
PlotShapBarChartKeyError ==
    /\ pc = "rendered"
    /\ \E i \in 1..Len(top_n_features) :
          BarLabels(shap_values, top_n_features)[i] \notin DOMAIN color_options
    /\ pc' = "key_error"
    /\ UNCHANGED <<n_clicks, input_text, n_shap_input, top_n, processed_text, word_mapping, shap_values,
                   top_n_features, reverse_mapping, word_positions, entities, modified_text,
                   adjusted_entities, color_options, bar_colors>>

Next ==
    \/ NoAnalysis
    \/ Preprocess
    \/ ComputeShapValues
    \/ GenerateSpacyVisualization
    \/ PlotShapBarChart
    \/ PlotShapBarChartKeyError

Spec == Init /\ [][Next]_vars

(* ------------------------------ properties ----------------------------- *)

Explained == pc \in {"explained", "rendered", "done", "key_error"}
Rendered == pc \in {"rendered", "done", "key_error"}

\* the form a raw token has in the cleaned text: lines 32, 38 and 44
CleanedForm(word) == Stem(Lower(SlangGet(word)))

LettersOnly(word) == \A k \in 1..Len(word) : word[k] \in Letters

\* the token is not dropped at line 38
Kept(word) == Lower(SlangGet(word)) \notin stopwords

\* the 'before' forms of the log
Befores == {r[1] : r \in word_mapping}

\* the forms the records of the log lead to from word, composed before -> after
ChainStep(S) == S \cup {r[2] : r \in {x \in word_mapping : x[1] \in S}}
ChainFrom(word) == ChainStep(ChainStep(ChainStep({word})))

\* the word position j was not found by the search of line 233
Unmatched(j) == word_positions[j].start = -1

\* some highlight span lies at word position j
SpanAt(j) ==
    \E k \in 1..Len(entities) :
        /\ entities[k].start = word_positions[j].start
        /\ entities[k].end = word_positions[j].end

\* the consecutive span pairs with no character, and with exactly one
\* character, of raw text between them
ZeroGapPairs == {i \in 1..(Len(entities) - 1) : entities[i].end = entities[i + 1].start}
GapOnePairs == {i \in 1..(Len(entities) - 1) : entities[i].end + 1 = entities[i + 1].start}

\* the spans are in ascending offset order and do not overlap
Ascending == \A i \in 1..(Len(entities) - 1) : entities[i].end <= entities[i + 1].start

RECURSIVE DeleteAt(_, _, _)
\* seq without the elements at the positions of P, from position i on
DeleteAt(seq, P, i) ==
    IF i > Len(seq) THEN <<>>
    ELSE (IF i \in P THEN <<>> ELSE <<seq[i]>>) \o DeleteAt(seq, P, i + 1)

\* the features that are an 'after' of the log with |SHAP| >= 0.01
Qualifying ==
    {f \in Features : f \in {r[2] : r \in word_mapping} /\ Abs(shap_values[f]) >= Threshold}

\* C1: the spans of adjusted_entities, in ascending start order, satisfy
\* span[i].end <= span[i+1].start: no two of them overlap.
C1_NoOverlap ==
    Rendered =>
        \A i, j \in 1..Len(adjusted_entities) :
            i # j => \/ adjusted_entities[i].end <= adjusted_entities[j].start
                     \/ adjusted_entities[j].end <= adjusted_entities[i].start

\* C2: every raw token whose cleaned form (slang, lowercase, stem, composed)
\* differs from it and has |SHAP| >= 0.01 is highlighted at its raw span.
C2_FinalFormHighlighted ==
    Rendered =>
        \A j \in 1..Len(word_positions) :
            LET w == word_positions[j].word
            IN (/\ LettersOnly(w) /\ Kept(w)
                /\ CleanedForm(w) # w
                /\ CleanedForm(w) \in Features
                /\ Abs(shap_values[CleanedForm(w)]) >= Threshold)
               => SpanAt(j)

C4_ProvenanceComplete ==
    pc \notin {"request", "no_analysis"} =>
        LET tokens == word_tokenize(CleanText(input_text))
        IN \A i \in 1..Len(tokens) :
              Kept(tokens[i]) =>
                  IF CleanedForm(tokens[i]) # tokens[i]
                  THEN /\ tokens[i] \in Befores
                       /\ CleanedForm(tokens[i]) \in ChainFrom(tokens[i])
                  ELSE tokens[i] \notin Befores

\* C5: a token not found at or after the end of the previous token yields no
\* span and leaves the search cursor where it was or further on.
C5_UnmatchedSkipped ==
    Rendered =>
        \A j \in 1..Len(word_positions) :
            Unmatched(j) =>
                /\ ~SpanAt(j)
                /\ word_positions[j].end >= (IF j = 1 THEN 0 ELSE word_positions[j - 1].end)

\* C6: compute_shap_values returns exactly min(topN, q) features, all of them
\* qualifying, q being the number of qualifying features, and the count it
\* reports is the number returned.
C6_TopNCount ==
    Explained =>
        /\ Len(top_n_features) = Min({n_shap_input, Cardinality(Qualifying)})
        /\ top_n = Len(top_n_features)
        /\ {top_n_features[i] : i \in 1..Len(top_n_features)} \subseteq Qualifying
        /\ Cardinality({top_n_features[i] : i \in 1..Len(top_n_features)}) = Len(top_n_features)

\* C6 witness: more features are requested than qualify, and some qualify.
C6_Witness ==
    /\ pc = "explained"
    /\ Cardinality(Qualifying) >= 1
    /\ n_shap_input > Cardinality(Qualifying)
    /\ top_n = Cardinality(Qualifying)

\* C7: every label of adjusted_entities is a key of color_options.
C7_EverySpanHasColor ==
    Rendered =>
        \A k \in 1..Len(adjusted_entities) :
            adjusted_entities[k].label \in DOMAIN color_options

\* C8 as stated: a separator is inserted exactly for the consecutive span
\* pairs with zero gap, so the text grows by the number of such pairs.
C8_ZeroGapSeparators ==
    Rendered => Len(modified_text) = Len(input_text) + Cardinality(ZeroGapPairs)

\* C8 as amended: one "_" is inserted exactly for the consecutive span pairs
\* with span[i].end + 1 = span[i+1].start; the text is the raw text with that
\* many "_" added; when the spans are in ascending order the "_" of a pair
\* sits right after span[i], at span[i].end plus the earlier insertions.
C8_GapOneSeparators ==
    Rendered =>
        /\ Len(modified_text) = Len(input_text) + Cardinality(GapOnePairs)
        /\ IF GapOnePairs = {} THEN modified_text = input_text
           ELSE \E P \in SUBSET {i \in 1..Len(modified_text) : modified_text[i] = "_"} :
                   /\ Cardinality(P) = Cardinality(GapOnePairs)
                   /\ DeleteAt(modified_text, P, 1) = input_text
        /\ Ascending =>
              LET At(i) == entities[i].end + Cardinality({j \in GapOnePairs : j < i}) + 1
              IN /\ \A i \in GapOnePairs : modified_text[At(i)] = "_"
                 /\ DeleteAt(modified_text, {At(i) : i \in GapOnePairs}, 1) = input_text

\* C8 witness: two consecutive spans with one character between them.
C8_Witness == Rendered /\ GapOnePairs # {} /\ Ascending

\* C9: each adjusted offset is the original offset plus the number of
\* separators inserted before that original offset.
C9_AdjustedOffsets ==
    Rendered =>
        LET Before(x) == Cardinality({i \in GapOnePairs : entities[i].end < x})
        IN \A k \in 1..Len(entities) :
              /\ adjusted_entities[k].start = entities[k].start + Before(entities[k].start)
              /\ adjusted_entities[k].end = entities[k].end + Before(entities[k].end)

\* C10: the colour mapping has the label of every feature of the ranked
\* top-N list, so the bar chart is plotted without a missing label.
C10_EveryBarHasColor ==
    /\ pc # "key_error"
    /\ Rendered =>
          \A i \in 1..Len(top_n_features) :
              Label(shap_values[top_n_features[i]]) \in DOMAIN color_options

====
